---- MODULE Spec2Model ----
(***************************************************************************)
(* A model of pySimPro: the SimProObject engine of src/simpro.py           *)
(* (addressing, column projection, paginated listing, create, retrieve,    *)
(* the class factory) and the workflow of src/simple_bootstrap.py          *)
(* (create_site, create_job).                                              *)
(*                                                                         *)
(* Text is a sequence of one-character strings wherever the code looks     *)
(* inside it (addresses, names, URLs); attribute and class names, which    *)
(* the code only compares, are TLA+ strings.                               *)
(***************************************************************************)
EXTENDS Integers, Sequences, FiniteSets, TLC

VARIABLES
    requests,        \* every HTTP request sent so far, oldest first
    server_ids,      \* list: the IDs of the parent's child records on the server
    server_page,     \* list: the number of records the server puts on a page
    caller_columns,  \* list/retrieve: the caller's column list object (or None)
    list_cls,        \* list/retrieve: the class the operation is called on
    list_parent,     \* list/retrieve: the parent the operation is called under
    list_pc,         \* list/retrieve: "idle", "loop", "returned", "raised"
    params,          \* list: the params dict of _list_all
    child_objects,   \* list: the accumulator of _list_all
    list_result,     \* list/retrieve: what the call returned to its caller
    list_calls,      \* list/retrieve: the calls made with caller_columns so far
    site_attributes,   \* create_site: the caller's site_attributes dict
    record_attributes, \* create_site: the dict sent to the server
    site_pc,           \* create_site: "idle", "loop", "returned", "raised"
    site_i,            \* create_site: passes of the for loop begun so far
    site_result,       \* create_site: the Site returned, or None
    site_error,        \* create_site: the exception raised to the caller, or ""
    server_next_id,    \* server: the ID the next created record gets
    url_obj,           \* addressing: the instance the caller holds (or Parentless)
    class_descriptions, \* build_classes: its argument
    classes,            \* build_classes: the list it builds and returns
    build_pc,           \* build_classes: "idle", "loop", "returned"
    job,                  \* create_job: the job of line 85
    server_sections,      \* server: the IDs of the job's sections
    server_cost_centers,  \* server: the IDs of each section's cost centers
    job_pc,               \* create_job: where lines 89-102 stand
    sections,             \* create_job: the list of line 90
    section,              \* create_job: the section of lines 92/94, or None
    job_cost_centers,     \* create_job: the list of line 97
    job_runs,             \* create_job: the runs of lines 89-102 begun so far
    job_attributes,       \* create_job: the caller's dict of job attributes
    job_record_attributes \* create_job: record_attributes of lines 78-79

listVars == <<server_ids, server_page, caller_columns, list_cls, list_parent, list_pc,
              params, child_objects, list_result, list_calls>>

siteVars == <<site_attributes, record_attributes, site_pc, site_i, site_result,
              site_error, server_next_id>>

urlVars == <<url_obj>>

buildVars == <<class_descriptions, classes, build_pc>>

jobCallVars == <<job_attributes, job_record_attributes>>

jobVars == <<job, server_sections, server_cost_centers, job_pc, sections, section,
             job_cost_centers, job_runs, jobCallVars>>

vars == <<requests, listVars, siteVars, urlVars, buildVars, jobVars>>

\* ---------------------------------------------------------------- bounds

MaxId == 5          \* record IDs on the server are drawn from 1..MaxId
MaxPage == 3        \* the server's page size is drawn from 1..MaxPage
MaxColumns == 2     \* the caller's column list has at most this many entries
MaxCalls == 2       \* list/retrieve calls made with the same column list object
MaxLen == 3         \* the street address text has at most this many characters
MaxRequests == 3    \* addressing: requests sent while the caller walks down the tree
MaxDescriptions == 2 \* build_classes: the descriptions of a generated list
MaxRuns == 2        \* create_job: runs of lines 89-102 on the same job
MaxPages == 3       \* list_all: the pages one call requests of a server that
                    \* sends the "next" link as it likes

\* ------------------------------------------------------- general helpers

Min(a, b) == IF a < b THEN a ELSE b

Range(s) == {s[i] : i \in 1..Len(s)}

Count(s, x) == Cardinality({i \in 1..Len(s) : s[i] = x})

SeqsUpTo(S, n) == UNION {[1..k -> S] : k \in 0..n}

\* The sequences that hold every element of S exactly once: the orders in
\* which iterating a Python set can yield its elements.
Orderings(S) == {s \in [1..Cardinality(S) -> S] : Range(s) = S}

RECURSIVE Ascending(_)
Ascending(S) ==
    IF S = {} THEN <<>>
    ELSE LET m == CHOOSE x \in S : \A y \in S : x <= y
         IN <<m>> \o Ascending(S \ {m})

\* Python's None, and a value that is not None, where the code allows both.
None == [none |-> TRUE]
Some(v) == [some |-> v]

\* ------------------------------------------------------------ addressing

COMPANY_DOMAIN == <<"a", "c", "m", "e">>

BASE_URL == <<"h","t","t","p","s",":","/","/">> \o COMPANY_DOMAIN
            \o <<".","s","i","m","p","r","o","s","u","i","t","e",".","c","o","m">>

BASE_API_URL == BASE_URL \o <<"/","a","p","i","/","v","1",".","0">>

\* class Parentless: its obj_url is BASE_API_URL.
Parentless == [name |-> "Parentless"]

\* ---------------------------------------------------------- class factory

\* The dataclass ClassDescription; bases, docstring, attributes and definitions
\* are None or Some(value).
ClassDescription(name, bases, suffix, docstring, attributes, definitions) ==
    [name |-> name, bases |-> bases, type_url_suffix |-> suffix,
     docstring |-> docstring, attributes |-> attributes, definitions |-> definitions]

\* d1 updated with d2, as dict.update does: d2's entries win.
DictUpdate(d1, d2) ==
    [k \in DOMAIN d1 \cup DOMAIN d2 |-> IF k \in DOMAIN d2 THEN d2[k] ELSE d1[k]]

EmptyDict == [k \in {} |-> <<>>]

\* Python truthiness of an optional value whose empty value is `empty`.
Truthy(o, empty) == o # None /\ o.some # empty

new_class_default_segment(cls) ==
    LET sfx == IF cls.type_url_suffix = <<>> THEN <<"/">> ELSE cls.type_url_suffix
        d0 == [k \in {"type_url_suffix"} |-> sfx]
        d3 == IF cls.definitions # None THEN DictUpdate(d0, cls.definitions.some) ELSE d0
    IN [name |-> cls.name, bases |-> <<"SimProObject">>, dict |-> d3]

\* One pass of the loop of build_classes: the type made from one description.
\* A type is its name, its bases and its __dict__.
new_class(cls) ==
    LET bases == <<"SimProObject">>
                 \o (IF Truthy(cls.bases, <<>>) THEN cls.bases.some ELSE <<>>)
        d0 == [k \in {"type_url_suffix"} |-> cls.type_url_suffix]
        d1 == IF Truthy(cls.docstring, "")
              THEN DictUpdate(d0, [k \in {"__doc__"} |-> cls.docstring.some]) ELSE d0
        d2 == IF Truthy(cls.attributes, <<>>)
              THEN DictUpdate(d1, [k \in {"attributes"} |-> cls.attributes.some]) ELSE d1
        d3 == IF cls.definitions # None
              THEN DictUpdate(d2, cls.definitions.some) ELSE d2
    IN [name |-> cls.name, bases |-> bases, dict |-> d3]

\* build_classes: one type per description, in the order of the descriptions.
build_classes(descriptions) ==
    [i \in 1..Len(descriptions) |-> new_class(descriptions[i])]

SuffixCompanies == <<"/","c","o","m","p","a","n","i","e","s","/">>

\* The entries of CLASS_DESCRIPTIONS the model uses, in source order; the
\* Job attribute list is the source's, its missing comma included.
CLASS_DESCRIPTIONS == <<
    ClassDescription("Company", None, SuffixCompanies,
        Some("A Parentless SimPRO Type representing a company."), None, None),
    ClassDescription("CompanyCustomer", None,
        <<"/","c","u","s","t","o","m","e","r","s","/","c","o","m","p","a","n","i","e","s","/">>,
        Some("Child of Company."), None, None),
    ClassDescription("Site", None, <<"/","s","i","t","e","s","/">>,
        Some("Child of Company."),
        Some(<<"Address", "City", "State", "PostalCode", "Country">>), None),
    ClassDescription("Job", None, <<"/","j","o","b","s","/">>,
        Some("Child of Company."),
        Some(<<"Type", "Customer", "CustomerContact", "AdditionalContactsSite",
               "SiteContact", "OrderNo", "RequestNo", "Name", "Description", "Notes",
               "DateIssued", "DueDate", "DueTime", "Tags", "Salesperson",
               "ProjectManager", "Technician", "Stage", "Status", "ResponseTime",
               "IsVariation", "LinkedVariations", "ConvertedFromQuote",
               "DateModified", "Total", "Totals">>), None),
    ClassDescription("JobSection", None, <<"/","s","e","c","t","i","o","n","s","/">>,
        Some("Child of Job."), None, None),
    ClassDescription("JobCostCenter", None,
        <<"/","c","o","s","t","C","e","n","t","e","r","s","/">>,
        Some("Child of Section."), None, None),
    ClassDescription("Company", None, SuffixCompanies,
        Some("Child of Parentless."), None, None) >>

\* The type a name is bound to when the built types are bound to their names
\* in list order.
ClassNamed(built, name) ==
    built[CHOOSE i \in 1..Len(built) :
             /\ built[i].name = name
             /\ \A j \in (i + 1)..Len(built) : built[j].name # name]

\* The hand-written class Company(SimProObject): it overrides list_all and
\* __init__.
CompanyClass ==
    [name |-> "Company", bases |-> <<"SimProObject">>,
     dict |-> [k \in {"type_url_suffix", "list_all", "__init__"} |->
                 IF k = "type_url_suffix" THEN SuffixCompanies ELSE <<>>]]

SiteClass == ClassNamed(build_classes(CLASS_DESCRIPTIONS), "Site")
JobClass == ClassNamed(build_classes(CLASS_DESCRIPTIONS), "Job")
SectionClass == ClassNamed(build_classes(CLASS_DESCRIPTIONS), "JobSection")
JobCostCenterClass == ClassNamed(build_classes(CLASS_DESCRIPTIONS), "JobCostCenter")
CompanyCustomerClass == ClassNamed(build_classes(CLASS_DESCRIPTIONS), "CompanyCustomer")

\* ------------------------------------------------------------ addressing

Digit(d) == <<"0","1","2","3","4","5","6","7","8","9">>[d + 1]

\* str(n) for an int n >= 0: its decimal digits.
RECURSIVE str(_)
str(n) == IF n < 10 THEN <<Digit(n)>> ELSE str(n \div 10) \o <<Digit(n % 10)>>

\* SimProObject.__init__: a local instance; nothing is sent.
SimProObject(cls, record_id, parent, attributes) ==
    [cls |-> cls, record_id |-> record_id, parent |-> parent, attributes |-> attributes]

\* Company.__init__: record_id None or 0 becomes 0, parent None becomes
\* Parentless().
Company(record_id, parent, attributes) ==
    SimProObject(CompanyClass,
                 IF record_id = None \/ record_id.some = 0 THEN 0 ELSE record_id.some,
                 IF parent = None THEN Parentless ELSE parent.some,
                 IF attributes = None THEN EmptyDict ELSE attributes.some)

RECURSIVE obj_url_id_first(_)
obj_url_id_first(self) ==
    IF self = Parentless THEN BASE_API_URL
    ELSE obj_url_id_first(self.parent) \o str(self.record_id)
            \o self.cls.dict["type_url_suffix"]

\* SimProObject.obj_url (and Parentless.obj_url, the base case).
RECURSIVE obj_url(_)
obj_url(self) ==
    IF self = Parentless THEN BASE_API_URL
    ELSE obj_url(self.parent) \o self.cls.dict["type_url_suffix"] \o str(self.record_id)

\* request_url of _list_all and _create: the type-level address.
type_url(cls, parent) == obj_url(parent) \o cls.dict["type_url_suffix"]

\* ------------------------------------------------------ the SimPRO server

\* What the server does is outside the repository: it is modelled from the
\* request parameters the client sends (orderby ID, a page index) and from the
\* "next" link relation the client reads.

\* The records of page `page`, in ascending ID order, server_page to a page.
ServerPage(ids, page) ==
    LET all == Ascending(ids)
    IN SubSeq(all, (page - 1) * server_page + 1, Min(page * server_page, Len(all)))

\* The response carries the "next" link exactly when records remain.
ServerHasNext(ids, page) == page * server_page < Cardinality(ids)

\* The JSON object of one record under a columns parameter: the requested
\* attributes, "ID" among them only if it was requested.
ServerRecord(id, columns_param) ==
    [c \in Range(columns_param) |-> IF c = "ID" THEN id ELSE 0]

\* ------------------------------------------------- list_all and retrieve

PAGE_SIZE == 250

ColumnNames == {"ID", "Name", "Type"}

\* `columns = [] if columns is None else columns`: the list the call works on.
ListOrEmpty(columns) == IF columns = None THEN <<>> ELSE columns.some

list_all_columns_with_default(cls, columns) ==
    IF columns = None /\ "attributes" \in DOMAIN cls.dict
    THEN <<Head(cls.dict["attributes"])>>
    ELSE ListOrEmpty(columns)

\* The list handed to _list_all: Company.list_all inserts "Name" in front.
list_all_columns(cls, columns) ==
    IF "list_all" \in DOMAIN cls.dict
    THEN <<"Name">> \o ListOrEmpty(columns)
    ELSE ListOrEmpty(columns)

\* _columns_to_params, line 58: the list after columns.append("ID").
columns_appended(columns) == columns \o <<"ID">>

columns_to_params_keeps_duplicates(columns) == {columns_appended(columns)}

\* _columns_to_params, lines 59-61: the values ",".join(set(columns)) can take,
\* each the sequence of the joined names; a set iterates in any order.
columns_to_params(columns) == Orderings(Range(columns_appended(columns)))

\* The caller's list object after a call that worked on `worked`: the same
\* object grew if the caller passed a list, and None stays None.
caller_after(columns, worked) ==
    IF columns = None THEN None ELSE Some(columns_appended(worked))

\* The parent the model lists under: a Company has no parent, the other
\* types hang under the first company.
ListParent(cls) ==
    IF cls.name = "Company" THEN Parentless ELSE Company(None, None, None)

\* dict.pop("ID") leaves the other attributes.
WithoutID(obj_attributes) ==
    [c \in DOMAIN obj_attributes \ {"ID"} |-> obj_attributes[c]]

\* Lines 129-132: the instances decoded from one page of records.
Decode(cls, parent, ids, columns_param) ==
    [i \in 1..Len(ids) |->
        LET obj_attributes == ServerRecord(ids[i], columns_param)
        IN SimProObject(cls, obj_attributes["ID"], parent, WithoutID(obj_attributes))]

next_page_stops(page, more) == None

\* Lines 134-139: the page to request next, None to end the loop.
next_page(page, more) == IF more THEN Some(page + 1) ELSE None

\* The statuses of a response: ok, or not ok for a fault of the request (a
\* validation error, not found) or for a fault of the server (transient).
ErrorStatuses == {"client_error", "server_error"}

\* One request as sent (by which operation, on which class, under which
\* parent), with the response it got: its status, for a record the server
\* created the ID in the response, and for a page of a listing the IDs of its
\* records and the names of its links.
Request(op, cls, parent, method, url, prms, json, status, id) ==
    [op |-> op, cls |-> cls, parent |-> parent, call |-> list_calls,
     method |-> method, url |-> url,
     params |-> prms, json |-> json, status |-> status, id |-> id,
     ids |-> <<>>, links |-> {}]

\* The request of _create (lines 155-156) with its response.
CreateRequest(cls, parent, attributes, status, id) ==
    Request("create", cls, parent, "POST", type_url(cls, parent), None, attributes, status,
            IF status = "ok" THEN id ELSE 0)

\* The state of the parts a specification does not exercise.
UrlIdle == url_obj = Parentless

JobIdle ==
    /\ job_attributes = EmptyDict
    /\ job_record_attributes = EmptyDict
    /\ job = None
    /\ server_sections = {}
    /\ server_cost_centers = EmptyDict
    /\ job_pc = "idle"
    /\ sections = <<>>
    /\ section = None
    /\ job_cost_centers = <<>>
    /\ job_runs = 0

BuildIdle ==
    /\ class_descriptions = <<>>
    /\ classes = <<>>
    /\ build_pc = "idle"

SiteIdle ==
    /\ site_attributes = EmptyDict
    /\ record_attributes = EmptyDict
    /\ site_pc = "idle"
    /\ site_i = 0
    /\ site_result = None
    /\ site_error = ""
    /\ server_next_id = 1

\* list_all / Company.list_all up to the first test of the while loop.
ListAllCall(cls, parent) ==
    /\ list_pc \in {"idle", "returned", "raised"}
    /\ list_calls < MaxCalls
    /\ list_cls' = cls
    /\ list_parent' = parent
    /\ LET worked == list_all_columns(cls, caller_columns)
       IN /\ \E columns_param \in columns_to_params(worked) :
                params' = [columns |-> columns_param, pageSize |-> PAGE_SIZE,
                           page |-> Some(1), orderby |-> "ID"]
          /\ caller_columns' = caller_after(caller_columns, worked)
    /\ child_objects' = <<>>
    /\ list_result' = <<>>
    /\ list_pc' = "loop"
    /\ list_calls' = list_calls + 1
    /\ UNCHANGED <<requests, server_ids, server_page, siteVars, urlVars, buildVars, jobVars>>

has_next_when_records(links, got) == got # <<>>

\* Line 134: `"next" in response.links`; the records of the page play no
\* part.
has_next(links, got) == "next" \in links

\* One pass of the while loop with a success response that carries the
\* records `ids` and the links `links`; the loop ends, and _list_all returns,
\* when the response has no "next" link.
ListPage(ids, links) ==
    /\ list_pc = "loop"
    /\ params.page # None
    /\ LET page == params.page.some
           parent == list_parent
           got == Decode(list_cls, parent, ids, params.columns)
           more == has_next(links, got)
       IN /\ requests' = Append(requests,
                [Request("list", list_cls, parent, "GET", type_url(list_cls, parent),
                         params, None, "ok", 0) EXCEPT !.ids = ids, !.links = links])
          /\ child_objects' = child_objects \o got
          /\ params' = [params EXCEPT !.page = next_page(page, more)]
          /\ list_pc' = IF next_page(page, more) # None THEN "loop" ELSE "returned"
          /\ list_result' = IF next_page(page, more) # None THEN list_result
                            ELSE child_objects \o got
    /\ UNCHANGED <<server_ids, server_page, caller_columns, list_cls, list_parent,
                   list_calls, siteVars, urlVars, buildVars, jobVars>>

\* The links of the server's response for a page.
ServerLinks(ids, page) == IF ServerHasNext(ids, page) THEN {"next"} ELSE {}

\* A pass against the server that pages its records.
ListPageOk ==
    /\ list_pc = "loop"
    /\ params.page # None
    /\ ListPage(ServerPage(server_ids, params.page.some),
                ServerLinks(server_ids, params.page.some))

\* What a page of any server can carry: no record, one or two, and any links.
PageRecords == {<<>>, <<1>>, <<2>>, <<2, 1>>}

PageLinks == SUBSET {"next", "prev"}

\* A pass against a server that answers each page as it likes.
ListPageAny ==
    /\ list_pc = "loop"
    /\ params.page # None
    /\ params.page.some <= MaxPages
    /\ \E ids \in PageRecords : \E links \in PageLinks : ListPage(ids, links)

raised_keeps_pages(collected) == collected

\* Lines 127-128: raise_for_status raises out of the loop and out of
\* list_all; of the instances collected so far the caller gets none.
raised(collected) == <<>>

\* One pass of the while loop with a response that is not ok:
\* raise_for_status raises and _list_all returns nothing.
ListPageFail ==
    /\ list_pc = "loop"
    /\ params.page # None
    /\ requests' = Append(requests,
          Request("list", list_cls, list_parent, "GET", type_url(list_cls, list_parent),
                  params, None, "server_error", 0))
    /\ list_pc' = "raised"
    /\ list_result' = raised(child_objects)
    /\ UNCHANGED <<server_ids, server_page, caller_columns, list_cls, list_parent, params,
                   child_objects, list_calls, siteVars, urlVars, buildVars, jobVars>>

\* retrieve / _retrieve of record_id under the parent, whole: one request; the
\* response is ok only for a record the server has.
Retrieve(cls, parent, record_id, ok) ==
    /\ list_pc \in {"idle", "returned", "raised"}
    /\ list_calls < MaxCalls
    /\ ok => record_id \in server_ids
    /\ list_cls' = cls
    /\ list_parent' = parent
    /\ LET worked == ListOrEmpty(caller_columns)
       IN /\ caller_columns' = caller_after(caller_columns, worked)
          /\ \E columns_param \in columns_to_params(worked) :
                /\ requests' = Append(requests,
                      Request("retrieve", cls, parent, "GET",
                              type_url(cls, parent) \o str(record_id),
                              [columns |-> columns_param], None,
                              IF ok THEN "ok" ELSE "client_error", 0))
                /\ list_result' =
                      IF ok THEN Decode(cls, parent, <<record_id>>, columns_param)
                      ELSE <<>>
    /\ list_pc' = IF ok THEN "returned" ELSE "raised"
    /\ params' = [columns |-> <<>>, pageSize |-> PAGE_SIZE, page |-> None, orderby |-> "ID"]
    /\ child_objects' = <<>>
    /\ list_calls' = list_calls + 1
    /\ UNCHANGED <<server_ids, server_page, siteVars, urlVars, buildVars, jobVars>>

InitList ==
    /\ JobIdle
    /\ SiteIdle
    /\ BuildIdle
    /\ UrlIdle
    /\ requests = <<>>
    /\ list_cls \in {CompanyClass, JobClass}
    /\ list_parent = ListParent(list_cls)
    /\ list_pc = "idle"
    /\ params = [columns |-> <<>>, pageSize |-> PAGE_SIZE, page |-> None, orderby |-> "ID"]
    /\ child_objects = <<>>
    /\ list_result = <<>>
    /\ list_calls = 0
    /\ server_ids \in SUBSET (1..MaxId)
    /\ server_page \in 1..MaxPage
    /\ caller_columns \in {None, Some(<<"Name">>)}

\* One list_all, against every set of records and every page size.
NextList ==
    \/ list_calls = 0 /\ ListAllCall(list_cls, list_parent)
    \/ ListPageOk
    \/ ListPageFail

SpecList == InitList /\ [][NextList]_vars

InitColumns ==
    /\ JobIdle
    /\ SiteIdle
    /\ BuildIdle
    /\ UrlIdle
    /\ requests = <<>>
    /\ list_cls \in {CompanyClass, JobClass}
    /\ list_parent = ListParent(list_cls)
    /\ list_pc = "idle"
    /\ params = [columns |-> <<>>, pageSize |-> PAGE_SIZE, page |-> None, orderby |-> "ID"]
    /\ child_objects = <<>>
    /\ list_result = <<>>
    /\ list_calls = 0
    /\ server_ids = {1}
    /\ server_page = 1
    /\ caller_columns \in {None} \cup {Some(s) : s \in SeqsUpTo(ColumnNames, MaxColumns)}

\* list_all and retrieve calls, one after the other, that the caller passes
\* one and the same column list to.
NextColumns ==
    \/ ListAllCall(list_cls, list_parent)
    \/ ListPageOk
    \/ ListPageFail
    \/ \E ok \in BOOLEAN : Retrieve(list_cls, list_parent, 1, ok)

SpecColumns == InitColumns /\ [][NextColumns]_vars

InitPages ==
    /\ JobIdle
    /\ SiteIdle
    /\ BuildIdle
    /\ UrlIdle
    /\ requests = <<>>
    /\ list_cls \in {CompanyClass, JobClass}
    /\ list_parent = ListParent(list_cls)
    /\ list_pc = "idle"
    /\ params = [columns |-> <<>>, pageSize |-> PAGE_SIZE, page |-> None, orderby |-> "ID"]
    /\ child_objects = <<>>
    /\ list_result = <<>>
    /\ list_calls = 0
    /\ server_ids = {}
    /\ server_page = 1
    /\ caller_columns = None

\* One list_all against a server that answers each page as it likes.
NextPages ==
    \/ list_calls = 0 /\ ListAllCall(list_cls, list_parent)
    \/ ListPageAny
    \/ params.page # None /\ params.page.some <= MaxPages /\ ListPageFail

SpecPages == InitPages /\ [][NextPages]_vars

\* ------------------------------------------------------------ create_site

\* The characters str.split() takes as separators, among those the model uses.
Whitespace == {" ", "\t", "\n", "\r"}

NewlinesToSpaces(text) == [k \in 1..Len(text) |-> IF text[k] = "\n" THEN " " ELSE text[k]]

\* street_address.replace("\n", ""): every newline deleted.
RemoveNewlines(text) == SelectSeq(text, LAMBDA ch : ch # "\n")

\* text.split(): the maximal runs of characters that are not whitespace.
RECURSIVE split(_)
split(text) ==
    IF text = <<>> THEN <<>>
    ELSE IF Head(text) \in Whitespace THEN split(Tail(text))
    ELSE LET e == CHOOSE e \in 1..Len(text) :
                        /\ \A n \in 1..e : text[n] \notin Whitespace
                        /\ e = Len(text) \/ text[e + 1] \in Whitespace
         IN <<SubSeq(text, 1, e)>> \o split(SubSeq(text, e + 1, Len(text)))

\* " ".join(words)
RECURSIVE join(_)
join(words) ==
    IF words = <<>> THEN <<>>
    ELSE IF Len(words) = 1 THEN words[1]
    ELSE words[1] \o <<" ">> \o join(Tail(words))

\* dict.get(key, None), for a dict whose values are None or Some(value).
Get(dict, key) == IF key \in DOMAIN dict THEN dict[key] ELSE None

\* set_name of create_site.
set_name(attributes) ==
    IF "Name" \notin DOMAIN attributes
    THEN LET address == Get(attributes, "Address")
         IN IF address # None /\ Get(address.some, "Address") # None
            THEN join(split(RemoveNewlines(Get(address.some, "Address").some)))
            ELSE <<>>
    ELSE attributes["Name"]

\* Lines 50-51: the derived name, then the caller's attributes over it.
site_record_attributes(attributes) ==
    DictUpdate([k \in {"Name"} |-> set_name(attributes)], attributes)

\* range(3): the passes of the for loop.
ATTEMPTS == 3

\* The exception requests.post or raise_for_status ends _create with, "" for
\* none: a response that is not ok raises HTTPError; no response at all is a
\* ConnectionError of requests.
create_raises(status) ==
    CASE status = "ok" -> ""
      [] status \in ErrorStatuses -> "HTTPError"
      [] status = "no_response" -> "ConnectionError"

caught_only_if_transient(status) == status = "server_error"

\* `except HTTPError`: the failures create_site swallows.
caught(status) == create_raises(status) = "HTTPError"

raise_last_error == "HTTPError"

\* Line 63: what the else clause of the for loop raises.
raise_when_exhausted == "JobRecordCreationError"

exhausted_one_early(i) == i + 1 >= ATTEMPTS - 1

\* The for loop has no pass left after pass i (counted from 0): its else
\* clause runs.
exhausted(i) == i + 1 >= ATTEMPTS

\* The customer of the model: a CompanyCustomer of the first company.
Customer == SimProObject(CompanyCustomerClass, 7, Company(None, None, None), EmptyDict)

\* The Site of a create response: the server's ID, and the attributes sent.
CreatedSite(id, attributes) == SimProObject(SiteClass, id, Customer, attributes)

\* Lines 35-51 of create_site: the attributes to send.
CreateSiteCall ==
    /\ site_pc = "idle"
    /\ record_attributes' = site_record_attributes(site_attributes)
    /\ site_pc' = "loop"
    /\ site_i' = 0
    /\ UNCHANGED <<requests, site_attributes, site_result, site_error, server_next_id,
                   listVars, urlVars, buildVars, jobVars>>

\* One pass of the for loop: Site.create, and what the try statement does
\* with its outcome.
CreateSiteAttempt(status) ==
    /\ site_pc = "loop"
    /\ site_i < ATTEMPTS
    /\ requests' = Append(requests,
          CreateRequest(SiteClass, Customer, record_attributes, status, server_next_id))
    /\ server_next_id' = IF status = "ok" THEN server_next_id + 1 ELSE server_next_id
    /\ site_i' = site_i + 1
    /\ IF status = "ok"
       THEN /\ site_result' = Some(CreatedSite(server_next_id, record_attributes))
            /\ site_pc' = "returned"
            /\ site_error' = ""
       ELSE IF caught(status)
       THEN /\ site_result' = None
            /\ site_pc' = IF exhausted(site_i) THEN "raised" ELSE "loop"
            /\ site_error' = IF exhausted(site_i) THEN raise_when_exhausted ELSE ""
       ELSE /\ site_result' = None
            /\ site_pc' = "raised"
            /\ site_error' = create_raises(status)
    /\ UNCHANGED <<site_attributes, record_attributes, listVars, urlVars, buildVars, jobVars>>

\* The street address "Line1\nExtra   spaces".
ExampleAddress ==
    <<"L","i","n","e","1","\n","E","x","t","r","a"," "," "," ","s","p","a","c","e","s">>

AddressChars == {"a", " ", "\n", "\t"}

\* The values of the "Address" key: None, or a dict whose "Address" is None
\* or a text.
AddressValues ==
    {None, Some(EmptyDict), Some([k \in {"Address"} |-> None])}
    \cup {Some([k \in {"Address"} |-> Some(t)]) :
            t \in SeqsUpTo(AddressChars, MaxLen) \cup {ExampleAddress}}

NameValues == {<<"H","Q">>, <<>>}

SiteAttributeValues ==
    {EmptyDict}
    \cup {[k \in {"Name"} |-> n] : n \in NameValues}
    \cup {[k \in {"Address"} |-> a] : a \in AddressValues}
    \cup {[k \in {"Name", "Address"} |-> IF k = "Name" THEN n ELSE a] :
            n \in NameValues, a \in AddressValues}

ListIdle ==
    /\ server_ids = {}
    /\ server_page = 1
    /\ caller_columns = None
    /\ list_cls = CompanyClass
    /\ list_parent = Parentless
    /\ list_pc = "idle"
    /\ params = [columns |-> <<>>, pageSize |-> PAGE_SIZE, page |-> None, orderby |-> "ID"]
    /\ child_objects = <<>>
    /\ list_result = <<>>
    /\ list_calls = 0

InitSite ==
    /\ JobIdle
    /\ ListIdle
    /\ BuildIdle
    /\ UrlIdle
    /\ requests = <<>>
    /\ site_attributes \in SiteAttributeValues
    /\ record_attributes = EmptyDict
    /\ site_pc = "idle"
    /\ site_i = 0
    /\ site_result = None
    /\ site_error = ""
    /\ server_next_id \in {1, 12}

NextSite ==
    \/ CreateSiteCall
    \/ \E status \in {"ok", "client_error", "server_error", "no_response"} :
          CreateSiteAttempt(status)

SpecSite == InitSite /\ [][NextSite]_vars

\* ------------------------------------------------- addressing in use

\* The types whose records hang under an instance of a type, as the
\* docstrings of CLASS_DESCRIPTIONS give them ("Child of ..."), along the
\* chain Company, Job, JobSection, JobCostCenter that create_job walks.
ChildClasses(parent) ==
    IF parent = Parentless THEN {CompanyClass}
    ELSE CASE parent.cls.name = "Company" -> {JobClass}
           [] parent.cls.name = "Job" -> {SectionClass}
           [] parent.cls.name = "JobSection" -> {JobCostCenterClass}
           [] OTHER -> {}

\* The record IDs a caller constructs instances with; Company() stands for
\* the first company.
KnownIds == {None, Some(120)}

\* The caller constructs an instance locally, under the instance it holds:
\* Company(...) with the defaults of Company.__init__, or cls(record_id, parent).
UrlConstruct(cls, record_id) ==
    /\ list_pc # "loop"
    /\ cls \in ChildClasses(url_obj)
    /\ cls # CompanyClass => record_id # None
    /\ url_obj' =
          IF cls = CompanyClass
          THEN Company(record_id, None, None)
          ELSE SimProObject(cls, record_id.some, url_obj, EmptyDict)
    /\ UNCHANGED <<requests, listVars, siteVars, buildVars, jobVars>>

\* create / _create of a cls record under the instance the caller holds,
\* whole: the caller holds the created instance afterwards, or gets the
\* HTTPError.
UrlCreate(cls, status) ==
    /\ list_pc # "loop"
    /\ cls \in ChildClasses(url_obj)
    /\ Len(requests) < MaxRequests
    /\ requests' = Append(requests,
          CreateRequest(cls, url_obj, EmptyDict, status, server_next_id))
    /\ IF status = "ok"
       THEN /\ url_obj' = SimProObject(cls, server_next_id, url_obj, EmptyDict)
            /\ server_next_id' = server_next_id + 1
       ELSE UNCHANGED <<url_obj, server_next_id>>
    /\ UNCHANGED <<listVars, site_attributes, record_attributes, site_pc, site_i,
                   site_result, site_error, buildVars, jobVars>>

\* The caller goes on with an instance a list_all or retrieve returned.
UrlAdopt(i) ==
    /\ list_pc = "returned"
    /\ i \in 1..Len(list_result)
    /\ list_result[i].parent = url_obj
    /\ url_obj' = list_result[i]
    /\ UNCHANGED <<requests, listVars, siteVars, buildVars, jobVars>>

InitUrl ==
    /\ JobIdle
    /\ SiteIdle
    /\ BuildIdle
    /\ UrlIdle
    /\ requests = <<>>
    /\ server_ids \in {{}, {3, 45}}
    /\ server_page = 1
    /\ caller_columns = None
    /\ list_cls = CompanyClass
    /\ list_parent = Parentless
    /\ list_pc = "idle"
    /\ params = [columns |-> <<>>, pageSize |-> PAGE_SIZE, page |-> None, orderby |-> "ID"]
    /\ child_objects = <<>>
    /\ list_result = <<>>
    /\ list_calls = 0

NextUrl ==
    \/ \E cls \in ChildClasses(url_obj), record_id \in KnownIds :
          UrlConstruct(cls, record_id)
    \/ \E cls \in ChildClasses(url_obj), status \in {"ok", "client_error"} :
          UrlCreate(cls, status)
    \/ \E cls \in ChildClasses(url_obj) : Len(requests) < MaxRequests /\ ListAllCall(cls, url_obj)
    \/ ListPageOk
    \/ ListPageFail
    \/ \E cls \in ChildClasses(url_obj), record_id \in {3}, ok \in BOOLEAN :
          Len(requests) < MaxRequests /\ Retrieve(cls, url_obj, record_id, ok)
    \/ \E i \in 1..MaxId : UrlAdopt(i)

SpecUrl == InitUrl /\ [][NextUrl]_vars

\* --------------------------------------------------------- build_classes

appended_replacing_same_name(built, new) ==
    SelectSeq(built, LAMBDA c : c.name # new.name) \o <<new>>

\* Line 338: classes.append(new_class).
appended(built, new) == Append(built, new)

\* build_classes up to the first test of its for loop.
BuildCall ==
    /\ build_pc = "idle"
    /\ classes' = <<>>
    /\ build_pc' = IF class_descriptions = <<>> THEN "returned" ELSE "loop"
    /\ UNCHANGED <<requests, class_descriptions, listVars, siteVars, urlVars, jobVars>>

\* One pass of the for loop, for the next description; after the last the
\* list is returned.
BuildStep ==
    /\ build_pc = "loop"
    /\ LET cls == class_descriptions[Len(classes) + 1]
       IN classes' = appended(classes, new_class(cls))
    /\ build_pc' = IF Len(classes) + 1 >= Len(class_descriptions) THEN "returned" ELSE "loop"
    /\ UNCHANGED <<requests, class_descriptions, listVars, siteVars, urlVars, jobVars>>

\* The first use of a built type: a create of a record of the type under the
\* first company, whole.
BuildCreate(i, status) ==
    /\ build_pc = "returned"
    /\ requests = <<>> /\ list_pc = "idle"
    /\ i \in 1..Len(classes)
    /\ requests' = Append(requests,
          CreateRequest(classes[i], Company(None, None, None), EmptyDict, status,
                        server_next_id))
    /\ server_next_id' = IF status = "ok" THEN server_next_id + 1 ELSE server_next_id
    /\ UNCHANGED <<listVars, site_attributes, record_attributes, site_pc, site_i,
                   site_result, site_error, urlVars, buildVars, jobVars>>

\* The first use of a built type: a list_all or a retrieve under the first
\* company.
BuildList(i) ==
    /\ build_pc = "returned"
    /\ requests = <<>> /\ list_pc = "idle"
    /\ i \in 1..Len(classes)
    /\ ListAllCall(classes[i], Company(None, None, None))

BuildRetrieve(i, record_id, ok) ==
    /\ build_pc = "returned"
    /\ requests = <<>> /\ list_pc = "idle"
    /\ i \in 1..Len(classes)
    /\ Retrieve(classes[i], Company(None, None, None), record_id, ok)

DescriptionNames == {"A", "B"}

\* Address segments of generated descriptions: "", "/a/", "/b/".
DescriptionSuffixes == {<<>>, <<"/","a","/">>, <<"/","b","/">>}

\* The optional fields of generated descriptions: all left out; a docstring
\* and an attribute list; definitions that set type_url_suffix themselves.
DescriptionOptions ==
    {[docstring |-> None, attributes |-> None, definitions |-> None],
     [docstring |-> Some("doc"), attributes |-> Some(<<"Name">>), definitions |-> None],
     [docstring |-> Some(""), attributes |-> Some(<<>>),
      definitions |-> Some([k \in {"type_url_suffix"} |-> <<"/","o","/">>])]}

Descriptions ==
    {ClassDescription(n, None, sfx, o.docstring, o.attributes, o.definitions) :
        n \in DescriptionNames, sfx \in DescriptionSuffixes, o \in DescriptionOptions}

InitBuild ==
    /\ JobIdle
    /\ SiteIdle
    /\ UrlIdle
    /\ requests = <<>>
    /\ server_ids = {3}
    /\ server_page = 1
    /\ caller_columns = None
    /\ list_cls = CompanyClass
    /\ list_parent = Parentless
    /\ list_pc = "idle"
    /\ params = [columns |-> <<>>, pageSize |-> PAGE_SIZE, page |-> None, orderby |-> "ID"]
    /\ child_objects = <<>>
    /\ list_result = <<>>
    /\ list_calls = 0
    /\ class_descriptions \in SeqsUpTo(Descriptions, MaxDescriptions) \cup {CLASS_DESCRIPTIONS}
    /\ classes = <<>>
    /\ build_pc = "idle"

NextBuild ==
    \/ BuildCall
    \/ BuildStep
    \/ \E i \in 1..Len(classes), status \in {"ok", "client_error"} : BuildCreate(i, status)
    \/ \E i \in 1..Len(classes) : BuildList(i)
    \/ ListPageOk
    \/ ListPageFail
    \/ \E i \in 1..Len(classes), ok \in BOOLEAN : BuildRetrieve(i, 3, ok)

SpecBuild == InitBuild /\ [][NextBuild]_vars

\* ------------------------------------- create_job: the default children

DEFAULT_COST_CENTER == 0

needs_default_below_two(found) == Len(found) < 2

\* `len(sections) < 1` and `len(job_cost_centers) < 1`.
needs_default(found) == Len(found) < 1

\* The request of a list_all that one page answers (the children are fewer
\* than pageSize), made in the current run.
OnePageRequest(cls, parent, status, run) ==
    [Request("list", cls, parent, "GET", type_url(cls, parent),
             [columns |-> <<"ID">>, pageSize |-> PAGE_SIZE, page |-> Some(1),
              orderby |-> "ID"],
             None, status, 0) EXCEPT !.call = run]

JobCreateRequest(cls, parent, attributes, status) ==
    [CreateRequest(cls, parent, attributes, status, server_next_id)
        EXCEPT !.call = job_runs]

\* Line 90: Section.list_all(parent=job), at the start of a run of lines
\* 89-102 on the job.
JobListSections(status) ==
    /\ job # None
    /\ job_pc \in {"job_created", "returned", "raised"}
    /\ job_runs < MaxRuns
    /\ job_runs' = job_runs + 1
    /\ requests' = Append(requests,
          OnePageRequest(SectionClass, job.some, status, job_runs + 1))
    /\ IF status = "ok"
       THEN /\ sections' = Decode(SectionClass, job.some, Ascending(server_sections), <<"ID">>)
            /\ job_pc' = "sections_listed"
       ELSE /\ sections' = <<>>
            /\ job_pc' = "raised"
    /\ section' = None
    /\ job_cost_centers' = <<>>
    /\ UNCHANGED <<jobCallVars, job, server_sections, server_cost_centers, listVars, siteVars,
                   urlVars, buildVars>>

\* Lines 91-92: no section was listed, Section.create(parent=job).
JobCreateSection(status) ==
    /\ job_pc = "sections_listed"
    /\ needs_default(sections)
    /\ requests' = Append(requests,
          JobCreateRequest(SectionClass, job.some, EmptyDict, status))
    /\ IF status = "ok"
       THEN /\ section' = Some(SimProObject(SectionClass, server_next_id, job.some, EmptyDict))
            /\ server_sections' = server_sections \cup {server_next_id}
            /\ server_cost_centers' =
                  DictUpdate(server_cost_centers, [k \in {server_next_id} |-> {}])
            /\ server_next_id' = server_next_id + 1
            /\ job_pc' = "section_known"
       ELSE /\ job_pc' = "raised"
            /\ UNCHANGED <<section, server_sections, server_cost_centers, server_next_id>>
    /\ UNCHANGED <<jobCallVars, job, sections, job_cost_centers, job_runs, listVars,
                   site_attributes, record_attributes, site_pc, site_i, site_result,
                   site_error, urlVars, buildVars>>

\* Lines 93-94: section = sections[0].
JobFirstSection ==
    /\ job_pc = "sections_listed"
    /\ ~needs_default(sections)
    /\ section' = Some(sections[1])
    /\ job_pc' = "section_known"
    /\ UNCHANGED <<requests, jobCallVars, job, server_sections, server_cost_centers, sections,
                   job_cost_centers, job_runs, listVars, siteVars, urlVars, buildVars>>

\* Line 97: JobCostCenter.list_all(parent=section).
JobListCostCenters(status) ==
    /\ job_pc = "section_known"
    /\ requests' = Append(requests,
          OnePageRequest(JobCostCenterClass, section.some, status, job_runs))
    /\ IF status = "ok"
       THEN /\ job_cost_centers' =
                  Decode(JobCostCenterClass, section.some,
                         Ascending(server_cost_centers[section.some.record_id]), <<"ID">>)
            /\ job_pc' = "cost_centers_listed"
       ELSE /\ job_cost_centers' = <<>>
            /\ job_pc' = "raised"
    /\ UNCHANGED <<jobCallVars, job, server_sections, server_cost_centers, sections, section,
                   job_runs, listVars, siteVars, urlVars, buildVars>>

\* Lines 98-100: no cost center was listed, JobCostCenter.create(
\* parent=section, CostCenter=DEFAULT_COST_CENTER, Name="BOQ"); line 102
\* returns the job.
JobCreateCostCenter(status) ==
    /\ job_pc = "cost_centers_listed"
    /\ needs_default(job_cost_centers)
    /\ requests' = Append(requests,
          JobCreateRequest(JobCostCenterClass, section.some,
              [k \in {"CostCenter", "Name"} |->
                  IF k = "Name" THEN <<"B", "O", "Q">> ELSE <<DEFAULT_COST_CENTER>>],
              status))
    /\ IF status = "ok"
       THEN /\ server_cost_centers' =
                  [server_cost_centers EXCEPT ![section.some.record_id] =
                      @ \cup {server_next_id}]
            /\ server_next_id' = server_next_id + 1
            /\ job_pc' = "returned"
       ELSE /\ job_pc' = "raised"
            /\ UNCHANGED <<server_cost_centers, server_next_id>>
    /\ UNCHANGED <<jobCallVars, job, server_sections, sections, section, job_cost_centers, job_runs,
                   listVars, site_attributes, record_attributes, site_pc, site_i,
                   site_result, site_error, urlVars, buildVars>>

\* Lines 98 and 102: a cost center was listed, the job is returned.
JobReturn ==
    /\ job_pc = "cost_centers_listed"
    /\ ~needs_default(job_cost_centers)
    /\ job_pc' = "returned"
    /\ UNCHANGED <<requests, jobCallVars, job, server_sections, server_cost_centers, sections, section,
                   job_cost_centers, job_runs, listVars, siteVars, urlVars, buildVars>>

\* The job of line 85, and what the server holds under it when line 89 is
\* reached: nothing, or sections with or without a cost center.
InitEnsure ==
    /\ ListIdle
    /\ UrlIdle
    /\ BuildIdle
    /\ requests = <<>>
    /\ site_attributes = EmptyDict
    /\ record_attributes = EmptyDict
    /\ site_pc = "idle"
    /\ site_i = 0
    /\ site_result = None
    /\ site_error = ""
    /\ server_next_id = 12
    /\ job_attributes = EmptyDict
    /\ job_record_attributes = EmptyDict
    /\ job = Some(SimProObject(JobClass, 120, Company(None, None, None), EmptyDict))
    /\ server_sections \in SUBSET {4, 6}
    /\ server_cost_centers \in [server_sections -> {{}, {9}}]
    /\ job_pc = "job_created"
    /\ sections = <<>>
    /\ section = None
    /\ job_cost_centers = <<>>
    /\ job_runs = 0

NextEnsure ==
    \/ \E status \in {"ok", "server_error"} : JobListSections(status)
    \/ \E status \in {"ok", "server_error"} : JobCreateSection(status)
    \/ JobFirstSection
    \/ \E status \in {"ok", "server_error"} : JobListCostCenters(status)
    \/ \E status \in {"ok", "server_error"} : JobCreateCostCenter(status)
    \/ JobReturn

SpecEnsure == InitEnsure /\ [][NextEnsure]_vars

\* ------------------------------------------ create_job: the site and the job

Service == <<"S", "e", "r", "v", "i", "c", "e">>

\* Lines 78-79: the record attributes, the caller's job attributes over the
\* type and the customer.
job_record(attributes) ==
    DictUpdate([k \in {"Type", "Customer"} |->
                   IF k = "Type" THEN Service ELSE Customer.record_id],
               attributes)

\* Line 83: job_attributes["Site"] = site.record_id.
with_site(attributes, site) ==
    DictUpdate(attributes, [k \in {"Site"} |-> site.record_id])

\* Lines 78-82 up to the call of create_site(customer, job_attributes), or
\* up to line 84 when the attributes name a site.
CreateJobCall ==
    /\ job_pc = "idle"
    /\ job_record_attributes' = job_record(job_attributes)
    /\ IF "Site" \notin DOMAIN job_record(job_attributes)
       THEN /\ site_attributes' = job_attributes
            /\ job_pc' = "create_site"
       ELSE /\ job_pc' = "create_job"
            /\ UNCHANGED site_attributes
    /\ UNCHANGED <<requests, job_attributes, job, server_sections, server_cost_centers,
                   sections, section, job_cost_centers, job_runs, record_attributes,
                   site_pc, site_i, site_result, site_error, server_next_id,
                   listVars, urlVars, buildVars>>

\* create_site raised: create_job has no handler around it and ends with the
\* same exception, before line 85.
CreateJobSiteRaised ==
    /\ job_pc = "create_site"
    /\ site_pc = "raised"
    /\ job_pc' = "raised"
    /\ UNCHANGED <<requests, jobCallVars, job, server_sections, server_cost_centers,
                   sections, section, job_cost_centers, job_runs, listVars, siteVars,
                   urlVars, buildVars>>

\* Line 83 when create_site returned, then lines 84-87:
\* Job.create(company, record_attributes); its exception is raised again.
\* The server may give the new job a section of its own, with or without a
\* cost center: lines 89-100 test for both.
CreateJobJob(status) ==
    /\ \/ job_pc = "create_job"
       \/ job_pc = "create_site" /\ site_pc = "returned"
    /\ job_attributes' = IF job_pc = "create_site"
                         THEN with_site(job_attributes, site_result.some)
                         ELSE job_attributes
    /\ requests' = Append(requests,
          CreateRequest(JobClass, Company(None, None, None), job_record_attributes,
                        status, server_next_id))
    /\ IF status = "ok"
       THEN /\ job' = Some(SimProObject(JobClass, server_next_id, Company(None, None, None),
                                        job_record_attributes))
            /\ server_next_id' = server_next_id + 1
            /\ server_sections' \in SUBSET {4}
            /\ server_cost_centers' \in [server_sections' -> {{}, {9}}]
            /\ job_pc' = "job_created"
       ELSE /\ job_pc' = "raised"
            /\ UNCHANGED <<job, server_next_id, server_sections, server_cost_centers>>
    /\ UNCHANGED <<job_record_attributes, sections,
                   section, job_cost_centers, job_runs, site_attributes, record_attributes,
                   site_pc, site_i, site_result, site_error, listVars, urlVars, buildVars>>

\* The job attributes of a caller: with or without a name, an address, a
\* site.
JobAttributeValues ==
    LET named == {EmptyDict, [k \in {"Name"} |-> <<"H", "Q">>],
                  [k \in {"Address"} |-> Some([a \in {"Address"} |-> Some(ExampleAddress)])]}
    IN named \cup {DictUpdate(d, [k \in {"Site"} |-> 5]) : d \in named}

InitJob ==
    /\ ListIdle
    /\ UrlIdle
    /\ BuildIdle
    /\ requests = <<>>
    /\ site_attributes = EmptyDict
    /\ record_attributes = EmptyDict
    /\ site_pc = "idle"
    /\ site_i = 0
    /\ site_result = None
    /\ site_error = ""
    /\ server_next_id \in {1, 12}
    /\ job_attributes \in JobAttributeValues
    /\ job_record_attributes = EmptyDict
    /\ job = None
    /\ server_sections = {}
    /\ server_cost_centers = EmptyDict
    /\ job_pc = "idle"
    /\ sections = <<>>
    /\ section = None
    /\ job_cost_centers = <<>>
    /\ job_runs = 0

\* One create_job, whole.
NextJob ==
    \/ CreateJobCall
    \/ job_pc = "create_site" /\ CreateSiteCall
    \/ \E status \in {"ok", "client_error", "server_error", "no_response"} :
          job_pc = "create_site" /\ CreateSiteAttempt(status)
    \/ CreateJobSiteRaised
    \/ \E status \in {"ok", "server_error"} : CreateJobJob(status)
    \/ \E status \in {"ok", "server_error"} : job_runs = 0 /\ JobListSections(status)
    \/ \E status \in {"ok", "server_error"} : JobCreateSection(status)
    \/ JobFirstSection
    \/ \E status \in {"ok", "server_error"} : JobListCostCenters(status)
    \/ \E status \in {"ok", "server_error"} : JobCreateCostCenter(status)
    \/ JobReturn

SpecJob == InitJob /\ [][NextJob]_vars

\* ------------------------------------------------------------ the claims

CeilDiv(n, p) == (n + p - 1) \div p

LastRequest == requests[Len(requests)]

\* The requests the call in progress (or the last call made) has sent.
RequestsOfCall == {i \in 1..Len(requests) : requests[i].call = list_calls}

ListReturned ==
    list_pc = "returned" /\ requests # <<>> /\ LastRequest.op = "list"

\* C1: a list_all that returned, against a server with N child records that
\* serves pages of server_page records and sends the "next" link exactly when
\* records remain, sent ceil(N / server_page) page requests (1 when N = 0) and
\* returned N instances, their IDs ascending and exactly the server's.
C1_ListAllPagesAndOrder ==
    ListReturned =>
        LET n == Cardinality(server_ids)
        IN /\ Cardinality(RequestsOfCall) = IF n = 0 THEN 1 ELSE CeilDiv(n, server_page)
           /\ Len(list_result) = n
           /\ {list_result[i].record_id : i \in 1..n} = server_ids
           /\ \A i, j \in 1..n : i < j => list_result[i].record_id < list_result[j].record_id

\* C1's case: three records on pages of two, listed in two requests.
C1_Witness ==
    /\ ListReturned
    /\ Cardinality(server_ids) = 3
    /\ server_page = 2
    /\ Cardinality(RequestsOfCall) = 2
    /\ Len(list_result) = 3

\* C5: the columns parameter of every list and retrieve request holds "ID"
\* exactly once and every other column name at most once, whatever list the
\* caller passed.
C5_IdentityColumnOnce ==
    \A i \in 1..Len(requests) :
        requests[i].op \in {"list", "retrieve"} =>
            /\ Count(requests[i].params.columns, "ID") = 1
            /\ \A c \in ColumnNames : Count(requests[i].params.columns, c) <= 1

\* C5's case: a request was sent for a caller's list that already held "ID"
\* (it holds it twice once the call has appended its own).
C5_Witness ==
    /\ requests # <<>>
    /\ caller_columns # None
    /\ Count(caller_columns.some, "ID") >= 2
    /\ Count(LastRequest.params.columns, "ID") = 1

SiteEnded == site_pc \in {"returned", "raised"}

Statuses == [i \in 1..Len(requests) |-> requests[i].status]

\* C2: when the first two create attempts of create_site get a transient
\* error response, a third attempt is made, and if it succeeds create_site
\* returns the Site of that third response; no attempt follows a successful
\* one.
C2_ThirdAttemptSucceeds ==
    /\ (SiteEnded /\ Len(requests) >= 2
            /\ Statuses[1] = "server_error" /\ Statuses[2] = "server_error")
       => /\ Len(requests) = 3
          /\ Statuses[3] = "ok" =>
                /\ site_pc = "returned"
                /\ site_result # None
                /\ site_result.some.record_id = requests[3].id
                /\ site_result.some.cls = SiteClass
    /\ \A i \in 1..Len(requests) : Statuses[i] = "ok" => i = Len(requests)

\* C2's case: two transient failures, then the success that is returned.
C2_Witness ==
    /\ site_pc = "returned"
    /\ Statuses = <<"server_error", "server_error", "ok">>
    /\ site_result.some.record_id = 12

\* C3: when every create attempt of create_site gets a transient error
\* response, the call ends after exactly 3 attempts with
\* JobRecordCreationError, which is not the HTTPError of the attempts; no call
\* makes more than 3 attempts.
C3_ExhaustedAfterThree ==
    /\ Len(requests) <= 3
    /\ (SiteEnded /\ \A i \in 1..Len(requests) : Statuses[i] = "server_error")
       => /\ Len(requests) = 3
          /\ site_pc = "raised"
          /\ site_error = "JobRecordCreationError"
          /\ site_error # create_raises("server_error")
          /\ site_result = None

\* C3's case: three transient failures and the exhausted error.
C3_Witness ==
    /\ site_pc = "raised"
    /\ Statuses = <<"server_error", "server_error", "server_error">>
    /\ site_error = "JobRecordCreationError"

\* C4 as claimed: a validation or not-found error response to the first
\* create attempt ends create_site at once, with that one attempt made.
C4_Claimed_NonTransientRaisesAtOnce ==
    (requests # <<>> /\ Statuses[1] = "client_error")
        => /\ Len(requests) = 1
           /\ site_pc = "raised"
           /\ site_error = "HTTPError"

\* C4 as amended: create_site swallows every error response, a validation or
\* not-found one like a transient one: each consumes an attempt, the next
\* attempt is made, and the caller never gets the HTTPError; after 3 such
\* attempts the call raises JobRecordCreationError. Only a failure that is no
\* HTTPError (no response at all) is raised at once.
C4_EveryErrorResponseIsRetried ==
    /\ site_error # "HTTPError"
    /\ (SiteEnded /\ requests # <<>> /\ Statuses[1] = "client_error")
       => /\ Len(requests) >= 2
          /\ site_error = "JobRecordCreationError" <=>
                (Len(requests) = 3 /\ \A i \in 1..3 : Statuses[i] \in ErrorStatuses)
    /\ (site_pc = "raised" /\ site_error # "JobRecordCreationError")
       => /\ Statuses[Len(requests)] = "no_response"
          /\ site_error = "ConnectionError"

\* C4's case: a validation error on attempt 1, and the call went on to
\* succeed on attempt 2.
C4_Witness ==
    /\ site_pc = "returned"
    /\ Statuses = <<"client_error", "ok">>

ExampleAttributes ==
    [k \in {"Address"} |-> Some([j \in {"Address"} |-> Some(ExampleAddress)])]

\* The street address of the site attributes, <<>> when there is none.
StreetAddress ==
    LET address == Get(site_attributes, "Address")
    IN IF address # None /\ Get(address.some, "Address") # None
       THEN Get(address.some, "Address").some ELSE <<>>

NonBlank(text) == SelectSeq(text, LAMBDA ch : ch \notin Whitespace)

\* The places of a text where a word ends and another word follows after
\* whitespace that is more than newlines.
WordGaps(text) ==
    {k \in 1..Len(text) :
        /\ text[k] \notin Whitespace
        /\ \E m \in (k + 2)..Len(text) :
              /\ text[m] \notin Whitespace
              /\ \A n \in (k + 1)..(m - 1) : text[n] \in Whitespace
              /\ \E n \in (k + 1)..(m - 1) : text[n] # "\n"}

\* C8 as claimed: for the street address "Line1\nExtra   spaces" and no
\* "Name", the "Name" sent is "Line1 Extra spaces".
C8_Claimed_NewlineBecomesSpace ==
    \A i \in 1..Len(requests) :
        site_attributes = ExampleAttributes =>
            requests[i].json["Name"] =
                <<"L","i","n","e","1"," ","E","x","t","r","a"," ","s","p","a","c","e","s">>

\* C8 as amended: for that address and no "Name", the "Name" sent is
\* "Line1Extra spaces": the newline is deleted with nothing in its place, and
\* the run of spaces becomes one space. In general a derived "Name" is the
\* address's characters that are not whitespace, in order, with single spaces
\* as the only whitespace, none at either end, and as many of them as there
\* are places where whitespace other than newlines alone parts two words.
\* With an explicit "Name", the "Name" sent is the caller's.
C8_NameDerivation ==
    \A i \in 1..Len(requests) :
        LET name == requests[i].json["Name"]
        IN /\ site_attributes = ExampleAttributes =>
                name = <<"L","i","n","e","1","E","x","t","r","a"," ","s","p","a","c","e","s">>
           /\ "Name" \in DOMAIN site_attributes => name = site_attributes["Name"]
           /\ "Name" \notin DOMAIN site_attributes =>
                /\ NonBlank(name) = NonBlank(StreetAddress)
                /\ \A k \in 1..Len(name) : name[k] \in Whitespace =>
                      /\ name[k] = " "
                      /\ 1 < k /\ k < Len(name)
                      /\ name[k - 1] \notin Whitespace
                /\ Count(name, " ") = Cardinality(WordGaps(StreetAddress))

\* C8's case: the example address was sent, under its derived name.
C8_Witness ==
    /\ site_attributes = ExampleAttributes
    /\ requests # <<>>
    /\ Len(requests[1].json["Name"]) = 17

\* The ancestors of an instance and the instance, root first.
RECURSIVE Lineage(_)
Lineage(obj) == IF obj = Parentless THEN <<>> ELSE Append(Lineage(obj.parent), obj)

RECURSIVE Flatten(_)
Flatten(parts) == IF parts = <<>> THEN <<>> ELSE Head(parts) \o Flatten(Tail(parts))

\* The base address, then segment and id of each instance of the lineage.
AddressOf(obj) ==
    LET line == Lineage(obj)
    IN BASE_API_URL
       \o Flatten([i \in 1..Len(line) |->
                     line[i].cls.dict["type_url_suffix"] \o str(line[i].record_id)])

\* Section 3 of job 120 of the first company.
ExampleSection ==
    SimProObject(SectionClass, 3,
        SimProObject(JobClass, 120, Company(None, None, None), EmptyDict), EmptyDict)

ExampleSectionUrl ==
        <<"h","t","t","p","s",":","/","/","a","c","m","e",".","s","i","m","p","r","o",
          "s","u","i","t","e",".","c","o","m","/","a","p","i","/","v","1",".","0","/",
          "c","o","m","p","a","n","i","e","s","/","0","/","j","o","b","s","/","1","2",
          "0","/","s","e","c","t","i","o","n","s","/","3">>

\* C6: the obj_url of every instance the caller holds or was returned, at
\* any depth, is the base address followed by segment and id of each ancestor
\* from the root down and then its own; list and create requests go to the
\* parent's address followed by the type's segment with no id, and a retrieve
\* request to that followed by the id. For section 3 of job 120 of company 0
\* it is https://acme.simprosuite.com/api/v1.0/companies/0/jobs/120/sections/3.
C6_ObjUrlComposition ==
    /\ obj_url(url_obj) = AddressOf(url_obj)
    /\ \A i \in 1..Len(list_result) : obj_url(list_result[i]) = AddressOf(list_result[i])
    /\ url_obj = ExampleSection => obj_url(url_obj) = ExampleSectionUrl
    /\ \A i \in 1..Len(requests) :
          LET r == requests[i]
          IN /\ r.op \in {"list", "create"} =>
                   r.url = AddressOf(r.parent) \o r.cls.dict["type_url_suffix"]
             /\ r.op = "retrieve" =>
                   \E id \in {3} : r.url = AddressOf(SimProObject(r.cls, id, r.parent, EmptyDict))

\* C6's case: the caller holds an instance at depth 3 that a list under the
\* depth-2 job returned, and went on to create under it.
C6_Witness ==
    /\ url_obj = ExampleSection
    /\ \E i \in 1..Len(requests) :
          requests[i].op = "list" /\ requests[i].parent = ExampleSection.parent
    /\ \E i \in 1..Len(requests) :
          requests[i].op = "create" /\ requests[i].parent = ExampleSection

BuildReturned == build_pc = "returned"

\* The segment a description gives its type: its definitions' own
\* type_url_suffix if they set one, else its type_url_suffix field.
SegmentOf(description) ==
    IF description.definitions # None
          /\ "type_url_suffix" \in DOMAIN description.definitions.some
    THEN description.definitions.some["type_url_suffix"]
    ELSE description.type_url_suffix

TypesNamed(name) == {i \in 1..Len(classes) : classes[i].name = name}

\* Two descriptions of one name with different segments, A before A'.
SharedName(i, j) ==
    /\ i < j
    /\ class_descriptions[i].name = class_descriptions[j].name
    /\ SegmentOf(class_descriptions[i]) # SegmentOf(class_descriptions[j])

\* C9 as claimed: the types built from a list in which two descriptions share
\* a name hold exactly one type of that name, with the later description's
\* segment.
C9_Claimed_OneTypePerName ==
    BuildReturned =>
        \A i, j \in 1..Len(class_descriptions) :
            (SharedName(i, j) /\ \A k \in (j + 1)..Len(class_descriptions) :
                                    class_descriptions[k].name # class_descriptions[j].name)
            => /\ Cardinality(TypesNamed(class_descriptions[j].name)) = 1
               /\ \A k \in TypesNamed(class_descriptions[j].name) :
                     classes[k].dict["type_url_suffix"] = SegmentOf(class_descriptions[j])

\* C9 as amended: build_classes returns one type per description, in the
\* order of the descriptions, each with its own description's name and
\* segment; two descriptions that share a name yield two types of that name,
\* the earlier with the earlier segment, and the last type of the name in the
\* list has the later description's segment.
C9_OneTypePerDescription ==
    BuildReturned =>
        /\ Len(classes) = Len(class_descriptions)
        /\ \A i \in 1..Len(classes) :
              /\ classes[i].name = class_descriptions[i].name
              /\ classes[i].dict["type_url_suffix"] = SegmentOf(class_descriptions[i])
        /\ \A i, j \in 1..Len(class_descriptions) :
              (SharedName(i, j) /\ \A k \in (j + 1)..Len(classes) :
                                      classes[k].name # classes[j].name)
              => /\ Cardinality(TypesNamed(classes[j].name)) >= 2
                 /\ ClassNamed(classes, classes[j].name).dict["type_url_suffix"]
                        = SegmentOf(class_descriptions[j])

\* C9's case: A with segment /a/, then A with segment /b/, built.
C9_Witness ==
    /\ BuildReturned
    /\ Len(class_descriptions) = 2
    /\ SharedName(1, 2)
    /\ class_descriptions[1].type_url_suffix = <<"/","a","/">>
    /\ class_descriptions[2].type_url_suffix = <<"/","b","/">>
    /\ Len(classes) = 2

EmptySegment(i) ==
    /\ class_descriptions[i].type_url_suffix = <<>>
    /\ SegmentOf(class_descriptions[i]) = <<>>

\* C10 as claimed: a description with an empty address segment is rejected
\* when the types are built: build_classes does not return a list for it.
C10_Claimed_EmptySegmentRejected ==
    BuildReturned => \A i \in 1..Len(class_descriptions) : ~EmptySegment(i)

\* C10 as amended: a description with an empty address segment is not
\* rejected, neither by build_classes nor by the first create, list_all or
\* retrieve on its type: the type is built with the empty segment, and its
\* create and list requests go to the parent's own address (a retrieve to
\* that followed by the id). Building types sends no request.
C10_EmptySegmentAccepted ==
    /\ ~BuildReturned => requests = <<>>
    /\ BuildReturned =>
          \A i \in 1..Len(class_descriptions) :
              EmptySegment(i) =>
                  /\ i <= Len(classes)
                  /\ classes[i].name = class_descriptions[i].name
                  /\ classes[i].dict["type_url_suffix"] = <<>>
                  /\ \A k \in 1..Len(requests) :
                        requests[k].cls = classes[i] =>
                            /\ requests[k].op \in {"create", "list"} =>
                                  requests[k].url = AddressOf(requests[k].parent)
                            /\ requests[k].op = "retrieve" =>
                                  requests[k].url = AddressOf(requests[k].parent) \o <<"3">>

\* C10's case: a type built from a description with an empty segment, and a
\* create on it that the server answered.
C10_Witness ==
    /\ BuildReturned
    /\ \E i \in 1..Len(class_descriptions) :
          /\ EmptySegment(i)
          /\ requests # <<>>
          /\ requests[1].cls = classes[i]
          /\ requests[1].op = "create"
          /\ requests[1].status = "ok"

\* The requests of run r of create_job's lines 89-102, and the successful
\* creates of cls records under a parent in the whole log.
RequestsOfRun(r) == {i \in 1..Len(requests) : requests[i].call = r}

Created(cls, parent) ==
    {i \in 1..Len(requests) :
        /\ requests[i].op = "create"
        /\ requests[i].status = "ok"
        /\ requests[i].cls = cls
        /\ requests[i].parent = parent}

\* Run r has ended with the job returned: a later run has begun, or the
\* current one stands at line 102; and none of its requests failed.
RunReturned(r) ==
    /\ r \in 1..job_runs
    /\ r = job_runs => job_pc = "returned"
    /\ \A i \in RequestsOfRun(r) : requests[i].status = "ok"

SectionUnder(id) == SimProObject(SectionClass, id, job.some, EmptyDict)

AtMostOneUnlessMore(before, after) ==
    Cardinality(after) <= IF Cardinality(before) > 1 THEN Cardinality(before) ELSE 1

\* What holds of every state of runs of lines 89-102 on one job.
EnsureOnce ==
    /\ Cardinality(Created(SectionClass, job.some)) <= 1
    /\ \A id \in server_sections :
          Cardinality(Created(JobCostCenterClass, SectionUnder(id))) <= 1
    /\ \A r \in 1..job_runs : \A q \in 1..job_runs :
          (RunReturned(r) /\ q > r) =>
              \A i \in RequestsOfRun(q) : requests[i].op = "list"
    /\ job_pc = "returned" =>
          /\ server_sections # {}
          /\ server_cost_centers[section.some.record_id] # {}

\* What holds of every step.
EnsureStep ==
    /\ (job_pc = "sections_listed" /\ sections # <<>>) =>
          /\ requests' = requests
          /\ section' = Some(sections[1])
          /\ server_sections' = server_sections
    /\ (job_pc = "cost_centers_listed" /\ job_cost_centers # <<>>) =>
          /\ requests' = requests
          /\ server_cost_centers' = server_cost_centers
    /\ AtMostOneUnlessMore(server_sections, server_sections')
    /\ \A id \in server_sections' :
          AtMostOneUnlessMore(IF id \in server_sections THEN server_cost_centers[id] ELSE {},
                              server_cost_centers'[id])

\* C7: lines 89-100 run repeatedly on one job with no other writer: a run
\* that lists at least one section sends no create and takes the first
\* listed, and likewise for the cost centers of that section; no step takes
\* the sections of the job, or the cost centers of a section, above one; at
\* most one section and one cost center per section is ever created; after a
\* run that returned, every later run sends list requests only; and a
\* returned run leaves a section with a cost center on the server.
C7_EnsureDefaultChildOnce == []EnsureOnce /\ [][EnsureStep]_vars

\* A second run has returned on a job that had no section: the first run
\* created the one section and its one cost center, the second only listed.
C7_Witness ==
    /\ job # None
    /\ job_runs = 2
    /\ job_pc = "returned"
    /\ RunReturned(1)
    /\ Cardinality(Created(SectionClass, job.some)) = 1
    /\ Cardinality(server_sections) = 1
    /\ \A id \in server_sections :
          /\ Cardinality(Created(JobCostCenterClass, SectionUnder(id))) = 1
          /\ Cardinality(server_cost_centers[id]) = 1
    /\ Cardinality(RequestsOfRun(2)) = 2

\* The requests of the log that got a response that is not ok.
NotOk == {i \in 1..Len(requests) : requests[i].status # "ok"}

\* C11: a list_all one of whose page requests, the first or a later one, got
\* a response that is not ok sent no request after it, raised to its caller,
\* and handed the caller none of the instances decoded from earlier pages;
\* and list_all raises for no other reason.
C11_ListAllOrNothing ==
    /\ \A i \in NotOk :
          /\ i = Len(requests)
          /\ list_pc = "raised"
          /\ list_result = <<>>
          /\ requests[i].params.page = Some(i)
          /\ \A j \in 1..(i - 1) : requests[j].status = "ok"
    /\ list_pc = "raised" => NotOk # {}

\* The request for the second page failed after the first page was decoded.
C11_Witness ==
    /\ list_pc = "raised"
    /\ Len(requests) = 2
    /\ requests[1].status = "ok"
    /\ requests[2].status # "ok"
    /\ child_objects # <<>>
    /\ list_result = <<>>

\* The IDs of the instances list_all returned, in their order.
ReturnedIds == [i \in 1..Len(list_result) |-> list_result[i].record_id]

\* C13: the requests of a list_all ask for the pages 1, 2, 3, ... in this
\* order, one request each; a page is asked for only after a response with
\* the "next" link to the page before it; after a response with the link the
\* next page is the one the loop asks for, and after the first response
\* without it list_all has returned, whatever the number of records of the
\* page; what it returns are the records of the pages in page order.
C13_PagesFollowNextLink ==
    LET k == Len(requests)
    IN /\ \A i \in 1..k : requests[i].params.page = Some(i)
       /\ \A i \in 1..(k - 1) : requests[i].status = "ok" /\ "next" \in requests[i].links
       /\ (k >= 1 /\ LastRequest.status = "ok" /\ "next" \in LastRequest.links) =>
             list_pc = "loop" /\ params.page = Some(k + 1)
       /\ (k >= 1 /\ LastRequest.status = "ok" /\ "next" \notin LastRequest.links) =>
             /\ list_pc = "returned"
             /\ params.page = None
             /\ ReturnedIds = Flatten([i \in 1..k |-> requests[i].ids])
       /\ list_pc = "returned" =>
             k >= 1 /\ LastRequest.status = "ok" /\ "next" \notin LastRequest.links

\* list_all returned after three pages: the first had no record and the
\* link, the last had records and no link.
C13_Witness ==
    /\ list_pc = "returned"
    /\ Len(requests) = 3
    /\ requests[1].ids = <<>>
    /\ requests[2].ids = <<2, 1>>
    /\ requests[3].ids = <<1>>
    /\ requests[3].links = {"prev"}
    /\ ReturnedIds = <<2, 1, 1>>

\* The column names a call sends for the list its caller passed (None for
\* no list): the caller's, "ID", and for Company.list_all "Name".
ExpectedColumns(op, cls, columns) ==
    Range(ListOrEmpty(columns))
        \cup {"ID"}
        \cup (IF op = "list" /\ "list_all" \in DOMAIN cls.dict THEN {"Name"} ELSE {})

HasAttributes(cls) == "attributes" \in DOMAIN cls.dict

\* C12 as claimed: a list or retrieve request of a type with recognized
\* attributes, made for a caller who passed no columns, asks for every
\* recognized attribute; made for a caller who passed columns, it asks for
\* columns of the caller's list.
C12_Claimed_AttributesAreDefaultColumns ==
    \A i \in 1..Len(requests) :
        (requests[i].op \in {"list", "retrieve"} /\ HasAttributes(requests[i].cls)) =>
            IF caller_columns = None
            THEN Range(requests[i].cls.dict["attributes"]) \subseteq
                    Range(requests[i].params.columns)
            ELSE Range(requests[i].params.columns) \subseteq Range(caller_columns.some)

\* The columns a call that begins in this step sends.
ColumnsOfCallBegun ==
    list_calls' = list_calls + 1 =>
        LET op == IF list_pc' = "loop" THEN "list" ELSE "retrieve"
            sent == IF op = "list" THEN params'.columns
                    ELSE requests'[Len(requests')].params.columns
        IN Range(sent) = ExpectedColumns(op, list_cls', caller_columns)

\* C12: the recognized attributes of a type are stored on it and sent by no
\* call: a list or retrieve call made without a column list asks for "ID"
\* alone (Company.list_all for "Name" and "ID"), whatever attributes the
\* descriptor of the type names; a call made with a column list asks for
\* the columns of that list and "ID" (Company.list_all also for "Name");
\* every page request of a list_all carries the columns of the call.
C12_AttributesAreNotDefaultColumns ==
    /\ [](\A i \in RequestsOfCall :
             requests[i].op = "list" => requests[i].params.columns = params.columns)
    /\ [][ColumnsOfCallBegun]_vars

\* A Job, whose descriptor names recognized attributes, was listed for a
\* caller who passed no columns: the request asked for "ID" alone.
C12_Witness ==
    /\ requests # <<>>
    /\ caller_columns = None
    /\ LastRequest.op = "list"
    /\ LastRequest.status = "ok"
    /\ LastRequest.cls = JobClass
    /\ HasAttributes(LastRequest.cls)
    /\ Len(LastRequest.cls.dict["attributes"]) > 1
    /\ LastRequest.params.columns = <<"ID">>

\* C14 as claimed: no list_all or retrieve call changes the column list its
\* caller passed: the list is after every step what it was before, so it
\* never grows.
C14_Claimed_CallerColumnsUnchanged == [][caller_columns' = caller_columns]_vars

\* What the calls do to the list: each call appends "ID" to it, and
\* Company.list_all first inserts "Name" in front of it.
C14_CallerColumnsGrow ==
    [][(list_calls' = list_calls + 1 /\ caller_columns # None) =>
          /\ caller_columns' # None
          /\ Len(caller_columns'.some) > Len(caller_columns.some)
          /\ caller_columns'.some[Len(caller_columns'.some)] = "ID"]_vars

\* A caller's list <<"Type">> after a Company.list_all and a retrieve: it
\* holds "Name" and two "ID", and the retrieve asked for "Name".
C14_Grown ==
    /\ requests # <<>>
    /\ caller_columns = Some(<<"Name", "Type", "ID", "ID">>)
    /\ LastRequest.op = "retrieve"
    /\ "Name" \in Range(LastRequest.params.columns)

\* The Job create requests of the log, and the successful Site creates.
JobRequests ==
    {i \in 1..Len(requests) : requests[i].op = "create" /\ requests[i].cls = JobClass}

SiteCreated ==
    {i \in 1..Len(requests) :
        requests[i].op = "create" /\ requests[i].cls = SiteClass /\ requests[i].status = "ok"}

\* C15 as claimed: a create_job whose job attributes name no "Site" creates
\* a site before it sends the Job create request, and the attributes of that
\* request hold "Site", the id of the site just created; when the site
\* creation is exhausted no Job create request is sent.
C15_Claimed_JobRequestNamesNewSite ==
    /\ \A i \in JobRequests :
          site_result # None =>
              /\ \E j \in SiteCreated : j < i /\ requests[j].id = site_result.some.record_id
              /\ "Site" \in DOMAIN requests[i].json
              /\ requests[i].json["Site"] = site_result.some.record_id
    /\ site_pc = "raised" => JobRequests = {}

\* What create_job sends: the record attributes of lines 78-79; the id of
\* the site it created goes into the caller's dict and not into the request.
C15_JobRequestOmitsNewSite ==
    /\ \A i \in JobRequests :
          /\ requests[i].json = job_record_attributes
          /\ site_result # None =>
                /\ "Site" \notin DOMAIN requests[i].json
                /\ job_attributes = with_site(site_attributes, site_result.some)
    /\ site_pc = "raised" => JobRequests = {}

\* create_job created a site and then the job: the Job create request named
\* no site, and the caller's dict names the new one.
C15_SiteLost ==
    /\ job # None
    /\ site_result # None
    /\ JobRequests # {}
    /\ \A i \in JobRequests : "Site" \notin DOMAIN requests[i].json
    /\ "Site" \in DOMAIN job_attributes
    /\ job_attributes["Site"] = site_result.some.record_id

====
